---------------------------- MODULE Spec2Model ----------------------------
(***************************************************************************)
(* Model of the TConnectSync connector (main.py): the MetricsTracker       *)
(* (record_entry / get_metrics under one threading.Lock), the              *)
(* patched_upload_entry hook wrapped around NightscoutApi.upload_entry,    *)
(* the /health and /health/data handlers, and the background thread that   *)
(* lifespan starts on run_tconnectsync.                                    *)
(*                                                                         *)
(* Python values are represented as follows.                               *)
(*   Optional[x]   : <<>> for None, <<x>> for a value                      *)
(*   str           : a sequence of tokens [k, v]; a "body" token stands    *)
(*                   for the date-time digits denoting instant v, "Z" for  *)
(*                   the letter Z, "+00:00" for a UTC offset, "junk" for   *)
(*                   text that is no part of an ISO-8601 date              *)
(*   datetime      : [aware, t]  (tzinfo present or not, instant t)        *)
(* datetime.now(timezone.utc) reads the variable clock, which never goes   *)
(* backwards.                                                              *)
(***************************************************************************)
EXTENDS Integers, Sequences, FiniteSets, TLC

\* ------------------------------------------------------------------ bounds
MaxCalls == 2
MaxTicks == 2
MaxSeqCalls == 3

\* --------------------------------------------------------------- constants
Window == 24 * 3600

Writers == {"w1", "w2"}
Readers == {"r1"}
Threads == Writers \cup Readers

None == <<>>
Some(x) == <<x>>

\* ------------------------------------------------------------ Python values
Body(n) == [k |-> "body", v |-> n]
ChZ == [k |-> "Z", v |-> 0]
ChOffset == [k |-> "+00:00", v |-> 0]
ChJunk == [k |-> "junk", v |-> 0]

DateTime(a, n) == [aware |-> a, t |-> n]

\* str.replace('Z', '+00:00'): every occurrence is replaced
ReplaceZ(s) == [i \in DOMAIN s |-> IF s[i] = ChZ THEN ChOffset ELSE s[i]]

\* datetime.fromisoformat: None stands for ValueError
FromIsoformatJunkAsEpoch(s) ==
    IF Len(s) = 1 /\ s[1].k = "body" THEN Some(DateTime(FALSE, s[1].v))
    ELSE IF Len(s) = 2 /\ s[1].k = "body" /\ s[2] = ChOffset
         THEN Some(DateTime(TRUE, s[1].v))
    ELSE Some(DateTime(TRUE, 0))

FromIsoformat(s) ==
    IF Len(s) = 1 /\ s[1].k = "body" THEN Some(DateTime(FALSE, s[1].v))
    ELSE IF Len(s) = 2 /\ s[1].k = "body" /\ s[2] = ChOffset
         THEN Some(DateTime(TRUE, s[1].v))
    ELSE None

\* datetime.isoformat()
Isoformat(d) == IF d.aware THEN <<Body(d.t), ChOffset>> ELSE <<Body(d.t)>>

\* a > b on datetimes raises TypeError when exactly one of them is naive
Comparable(a, b) == a.aware = b.aware
Greater(a, b) == a.t > b.t

\* datetime.timestamp()
Timestamp(d) == d.t

\* the "created_at" entry of a record: absent, a non-string, or a string
Absent == [type |-> "absent", s |-> <<>>]
NonStr == [type |-> "NoneType", s |-> <<>>]
Str(s) == [type |-> "str", s |-> s]

\* the calls the engine makes: upload_entry(ns_format, entity)
UploadCall(c, e) == [ns_format |-> c, entity |-> e]

UploadCalls ==
    { UploadCall(Absent, "treatments"),
      UploadCall(NonStr, "entries"),
      UploadCall(Str(<<Body(1), ChZ>>), "entries"),
      UploadCall(Str(<<Body(2), ChOffset>>), "treatments"),
      UploadCall(Str(<<Body(2)>>), "entries"),
      UploadCall(Str(<<ChJunk>>), "treatments") }

PushResults == {"ok", "rejected"}

\* ------------------------------------------------------------------- state
VARIABLES
    total_entries, last_entry_time, last_sync_time, entries_buffer, lock,
    clock, ticks, calls,
    pc, ns_format, entity, entry_time, tmp, now, exc,
    pushed, hookRet, result,
    counted, recordsDone, arrivals, seenTs, agedCutoff, lastRecordAt,
    sync, launch, starts, health

metricsVars == <<total_entries, last_entry_time, last_sync_time, entries_buffer>>
hookVars == <<ns_format, entity, entry_time, tmp, exc, pushed, hookRet, counted>>
ghostVars == <<recordsDone, arrivals, seenTs, agedCutoff, lastRecordAt>>
lifeVars == <<sync, launch, starts, health>>
vars == <<metricsVars, lock, clock, ticks, calls, pc, now, hookVars, result, ghostVars,
          lifeVars>>

NoResult == None
NoPush == [count |-> 0, args |-> None, ret |-> None]

Init ==
    /\ total_entries = 0
    /\ last_entry_time = None
    /\ last_sync_time = None
    /\ entries_buffer = <<>>
    /\ lock = None
    /\ clock = 0
    /\ ticks = 0
    /\ calls = 0
    /\ pc = [t \in Threads |-> "idle"]
    /\ ns_format = [w \in Writers |-> Absent]
    /\ entity = [w \in Writers |-> "treatments"]
    /\ entry_time = [w \in Writers |-> None]
    /\ tmp = [w \in Writers |-> 0]
    /\ now = [t \in Threads |-> DateTime(TRUE, 0)]
    /\ exc = [w \in Writers |-> "none"]
    /\ pushed = [w \in Writers |-> NoPush]
    /\ hookRet = [w \in Writers |-> None]
    /\ result = [r \in Readers |-> NoResult]
    /\ counted = [w \in Writers |-> FALSE]
    /\ recordsDone = 0
    /\ arrivals = <<>>
    /\ seenTs = {}
    /\ agedCutoff = None
    /\ lastRecordAt = None
    /\ sync = "not_started"
    /\ launch = None
    /\ starts = 0
    /\ health = [r \in Readers |-> None]

\* ------------------------------------------- lifespan / run_tconnectsync
\* the value of an environment variable: unset, empty, or a text
EmailValues == {None, Some(""), Some("user@example.org")}
PasswordValues == {None, Some(""), Some("secret")}
RegionValues == {None, Some(""), Some("EU")}

Environments ==
    [TCONNECT_EMAIL : EmailValues, TCONNECT_PASSWORD : PasswordValues,
     TCONNECT_REGION : RegionValues]

\* the truth value of os.environ.get(name)
IsSet(v) == v # None /\ v[1] # ""

\* line 91
CredentialsMissing(e) == ~IsSet(e.TCONNECT_EMAIL) \/ ~IsSet(e.TCONNECT_PASSWORD)

EngineArgsRegionAlways(e) ==
    <<"--auto-update", "--check-login", "--region">>
        \o (IF e.TCONNECT_REGION # None THEN e.TCONNECT_REGION ELSE <<"">>)

\* lines 96-100
EngineArgs(e) ==
    <<"--auto-update", "--check-login">>
        \o (IF IsSet(e.TCONNECT_REGION) THEN <<"--region", e.TCONNECT_REGION[1]>>
            ELSE <<>>)

\* the server answers requests once lifespan has started the thread (line 120)
Serving == sync # "not_started"

\* lines 111-118 and 83-100: the thread is started; run_tconnectsync reads
\* the environment, warns about missing credentials and assembles the arguments
Lifespan ==
    /\ sync = "not_started"
    /\ sync' = "starting"
    /\ \E e \in Environments :
          launch' = Some([env |-> e, args |-> EngineArgs(e),
                          warned |-> CredentialsMissing(e)])
    /\ UNCHANGED <<metricsVars, lock, clock, ticks, calls, pc, now, hookVars, result,
                   ghostVars, starts, health>>

\* line 102: tconnectsync.main(args) is entered; the engine runs from here
EngineMain ==
    /\ sync = "starting"
    /\ sync' = "running"
    /\ starts' = starts + 1
    /\ launch' = None
    /\ UNCHANGED <<metricsVars, lock, clock, ticks, calls, pc, now, hookVars, result,
                   ghostVars, health>>

SyncAfterCrashRestarted == "not_started"

\* lines 103-107: the exception is logged and run_tconnectsync returns
SyncAfterCrash == "crashed"

\* tconnectsync.main raises or returns; the hook is called synchronously by
\* the engine, so no call of it is in progress then
EngineExit ==
    /\ sync = "running"
    /\ \A w \in Writers : pc[w] = "idle"
    /\ \/ sync' = SyncAfterCrash
       \/ sync' = "returned"
    /\ UNCHANGED <<metricsVars, lock, clock, ticks, calls, pc, now, hookVars, result,
                   ghostVars, launch, starts, health>>

\* ----------------------------------------------------------- health_check
HealthStatusBySync(s) == IF s = "crashed" THEN "unhealthy" ELSE "healthy"

\* line 129
HealthStatus(s) == "healthy"

\* lines 127-129; during is the state of the background unit at the answer
HealthCheck(r) ==
    /\ Serving
    /\ pc[r] = "idle"
    /\ health' = [health EXCEPT ![r] =
                     Some([response |-> [status |-> HealthStatus(sync)],
                           during |-> sync])]
    /\ pc' = [pc EXCEPT ![r] = "health_done"]
    /\ UNCHANGED <<metricsVars, lock, clock, ticks, calls, now, hookVars, result,
                   ghostVars, sync, launch, starts>>

\* the response is sent
HealthReturn(r) ==
    /\ pc[r] = "health_done"
    /\ health' = [health EXCEPT ![r] = None]
    /\ pc' = [pc EXCEPT ![r] = "idle"]
    /\ UNCHANGED <<metricsVars, lock, clock, ticks, calls, now, hookVars, result,
                   ghostVars, sync, launch, starts>>

\* ------------------------------------------------------------- the lock
LockAvailableBroken == TRUE

LockAvailable == lock = None

\* the lock after an exception has left the "with self._lock" block
LockOnExceptionLeaked == lock

LockOnException == None

\* --------------------------------------------------- patched_upload_entry
\* lines 65-71: the timestamp the hook extracts; AttributeError when
\* created_at has no replace method
ExtractRaises(c) == c.type = "NoneType"

ExtractedTime(c) ==
    IF c.type = "absent" THEN None ELSE FromIsoformat(ReplaceZ(c.s))

\* the engine calls NightscoutApi.upload_entry(ns_format, entity); lines 62-71
HookCallWithin(w, limit) ==
    /\ sync = "running"
    /\ pc[w] = "idle"
    /\ UNCHANGED lifeVars
    /\ calls < limit
    /\ calls' = calls + 1
    /\ \E u \in UploadCalls :
          /\ ns_format' = [ns_format EXCEPT ![w] = u.ns_format]
          /\ entity' = [entity EXCEPT ![w] = u.entity]
          /\ IF ExtractRaises(u.ns_format)
             THEN /\ exc' = [exc EXCEPT ![w] = "AttributeError"]
                  /\ pc' = [pc EXCEPT ![w] = "push"]
                  /\ UNCHANGED entry_time
             ELSE /\ entry_time' = [entry_time EXCEPT ![w] = ExtractedTime(u.ns_format)]
                  /\ pc' = [pc EXCEPT ![w] = "rec_acquire"]
                  /\ UNCHANGED exc
    /\ UNCHANGED <<metricsVars, lock, clock, ticks, now, tmp, pushed, hookRet,
                   counted, result, ghostVars>>

HookCall(w) == HookCallWithin(w, MaxCalls)

\* ------------------------------------------------ MetricsTracker.record_entry
\* line 33: with self._lock; line 34, first half: read self.total_entries
RecAcquire(w) ==
    /\ pc[w] = "rec_acquire"
    /\ UNCHANGED lifeVars
    /\ LockAvailable
    /\ lock' = Some(w)
    /\ tmp' = [tmp EXCEPT ![w] = total_entries]
    /\ pc' = [pc EXCEPT ![w] = "rec_store"]
    /\ UNCHANGED <<metricsVars, clock, ticks, calls, now, ns_format, entity,
                   entry_time, exc, pushed, hookRet, counted, result, ghostVars>>

IncrementedTwice(n) == n + 2

IncrementedNever(n) == n

Incremented(n) == n + 1

SyncTimeAfterTimedOnly(old, n, ts) == IF ts = None THEN old ELSE Some(n)

\* line 36
SyncTimeAfter(old, n, ts) == Some(n)

\* line 34, second half: store self.total_entries;
\* lines 35-36: now = datetime.now(timezone.utc); self.last_sync_time = now
RecStore(w) ==
    /\ pc[w] = "rec_store"
    /\ UNCHANGED lifeVars
    /\ total_entries' = Incremented(tmp[w])
    /\ counted' = [counted EXCEPT ![w] = TRUE]
    /\ now' = [now EXCEPT ![w] = DateTime(TRUE, clock)]
    /\ last_sync_time' = SyncTimeAfter(last_sync_time, DateTime(TRUE, clock),
                                       entry_time[w])
    /\ pc' = [pc EXCEPT ![w] = "rec_compare"]
    /\ UNCHANGED <<last_entry_time, entries_buffer, lock, clock, ticks,
                   calls, ns_format, entity, entry_time, tmp, exc, pushed, hookRet,
                   result, ghostVars>>

\* line 39: the comparison raises TypeError when it is evaluated on a naive
\* and an aware datetime
CompareRaises(last, ts) == last # None /\ ~Comparable(ts, last[1])

\* lines 39-40
NewLastEntryTime(last, ts) ==
    IF last = None \/ Greater(ts, last[1]) THEN Some(ts) ELSE last

\* what a record_entry call leaves behind once it has left the lock
RecordLeft(w) ==
    /\ recordsDone' = recordsDone + 1
    /\ arrivals' = IF entry_time[w] # None
                   THEN Append(arrivals, Timestamp(now[w])) ELSE arrivals
    /\ seenTs' = IF entry_time[w] # None
                 THEN seenTs \cup {entry_time[w][1]} ELSE seenTs
    /\ lastRecordAt' = Some(Timestamp(now[w]))
    /\ UNCHANGED agedCutoff

\* lines 38-41 and the end of the with block; an exception on line 39 leaves
\* the with block, releases the lock and is caught on line 75; line 74 logs
\* and changes no state
RecCompare(w) ==
    /\ pc[w] = "rec_compare"
    /\ UNCHANGED lifeVars
    /\ IF entry_time[w] = None
       THEN /\ lock' = None
            /\ UNCHANGED <<last_entry_time, entries_buffer, exc>>
       ELSE IF CompareRaises(last_entry_time, entry_time[w][1])
       THEN /\ exc' = [exc EXCEPT ![w] = "TypeError"]
            /\ lock' = LockOnException
            /\ UNCHANGED <<last_entry_time, entries_buffer>>
       ELSE /\ last_entry_time' = NewLastEntryTime(last_entry_time, entry_time[w][1])
            /\ entries_buffer' = Append(entries_buffer, now[w])
            /\ lock' = None
            /\ UNCHANGED exc
    /\ pc' = [pc EXCEPT ![w] = "push"]
    /\ RecordLeft(w)
    /\ UNCHANGED <<total_entries, last_sync_time, clock, ticks, calls,
                   now, ns_format, entity, entry_time, tmp, pushed, hookRet, counted,
                   result>>

\* ------------------------------------------- the delegation on line 78
PushArgumentsDefaultEntity(w) == UploadCall(ns_format[w], "treatments")

PushArguments(w) == UploadCall(ns_format[w], entity[w])

\* return original_upload_entry(self, ns_format, entity)
Push(w) ==
    /\ pc[w] = "push"
    /\ UNCHANGED lifeVars
    /\ \E r \in PushResults :
          /\ pushed' = [pushed EXCEPT ![w] = [count |-> pushed[w].count + 1,
                                               args |-> Some(PushArguments(w)),
                                               ret |-> Some(r)]]
          /\ hookRet' = [hookRet EXCEPT ![w] = Some(r)]
    /\ pc' = [pc EXCEPT ![w] = "returned"]
    /\ UNCHANGED <<metricsVars, lock, clock, ticks, calls, now, ns_format, entity,
                   entry_time, tmp, exc, counted, result, ghostVars>>

\* the engine has its result and goes on
HookReturn(w) ==
    /\ pc[w] = "returned"
    /\ UNCHANGED lifeVars
    /\ pc' = [pc EXCEPT ![w] = "idle"]
    /\ ns_format' = [ns_format EXCEPT ![w] = Absent]
    /\ entity' = [entity EXCEPT ![w] = "treatments"]
    /\ entry_time' = [entry_time EXCEPT ![w] = None]
    /\ tmp' = [tmp EXCEPT ![w] = 0]
    /\ now' = [now EXCEPT ![w] = DateTime(TRUE, 0)]
    /\ exc' = [exc EXCEPT ![w] = "none"]
    /\ pushed' = [pushed EXCEPT ![w] = NoPush]
    /\ hookRet' = [hookRet EXCEPT ![w] = None]
    /\ counted' = [counted EXCEPT ![w] = FALSE]
    /\ UNCHANGED <<metricsVars, lock, clock, ticks, calls, result, ghostVars>>

\* ------------------------------------- health_data / MetricsTracker.get_metrics
\* line 133: m = metrics.get_metrics()
SnapCall(r) ==
    /\ Serving
    /\ pc[r] = "idle"
    /\ UNCHANGED lifeVars
    /\ pc' = [pc EXCEPT ![r] = "snap_acquire"]
    /\ UNCHANGED <<metricsVars, lock, clock, ticks, calls, now, hookVars, result, ghostVars>>

\* line 47
Cutoff(n) == Timestamp(n) - Window

PrunedKeepAll(buf, cutoff) == buf

PrunedInclusive(buf, cutoff) == SelectSeq(buf, LAMBDA t : Timestamp(t) >= cutoff)

\* line 48
Pruned(buf, cutoff) == SelectSeq(buf, LAMBDA t : Timestamp(t) > cutoff)

MetricsTotalFromWindow(total, lastEntry, buf, lastSync) ==
    [totalEntries |-> Len(buf),
     lastEntryTime |-> IF lastEntry # None THEN Some(Isoformat(lastEntry[1])) ELSE None,
     entriesLast24Hours |-> Len(buf),
     lastSyncTime |-> IF lastSync # None THEN Some(Isoformat(lastSync[1])) ELSE None]

MetricsEpochWhenNeverSynced(total, lastEntry, buf, lastSync) ==
    [totalEntries |-> total,
     lastEntryTime |-> IF lastEntry # None THEN Some(Isoformat(lastEntry[1])) ELSE None,
     entriesLast24Hours |-> Len(buf),
     lastSyncTime |-> IF lastSync # None THEN Some(Isoformat(lastSync[1]))
                      ELSE Some(Isoformat(DateTime(TRUE, 0)))]

\* lines 50-55
Metrics(total, lastEntry, buf, lastSync) ==
    [totalEntries |-> total,
     lastEntryTime |-> IF lastEntry # None THEN Some(Isoformat(lastEntry[1])) ELSE None,
     entriesLast24Hours |-> Len(buf),
     lastSyncTime |-> IF lastSync # None THEN Some(Isoformat(lastSync[1])) ELSE None]

\* lines 44-55: with self._lock, the buffer is pruned and the dict is built
SnapTake(r) ==
    /\ pc[r] = "snap_acquire"
    /\ UNCHANGED lifeVars
    /\ LockAvailable
    /\ lock' = Some(r)
    /\ now' = [now EXCEPT ![r] = DateTime(TRUE, clock)]
    /\ entries_buffer' = Pruned(entries_buffer, Cutoff(DateTime(TRUE, clock)))
    /\ result' = [result EXCEPT ![r] =
                     Some(Metrics(total_entries, last_entry_time, entries_buffer',
                                  last_sync_time))]
    /\ pc' = [pc EXCEPT ![r] = "snap_release"]
    /\ UNCHANGED <<total_entries, last_entry_time, last_sync_time, clock, ticks,
                   calls, hookVars, ghostVars>>

\* lines 134-145
HealthData(m) ==
    [connectorName |-> "Tandem Connector",
     status |-> "running",
     metrics |-> m,
     recentEntries |-> <<>>,
     configuration |-> [syncIntervalMinutes |-> 1,
                        connectSource |-> "TConnectSync (Python)"]]

\* end of the with block: the snapshot has excluded everything at or before
\* its cutoff; get_metrics returns and health_data builds its response
SnapRelease(r) ==
    /\ pc[r] = "snap_release"
    /\ UNCHANGED lifeVars
    /\ lock' = None
    /\ agedCutoff' = IF agedCutoff = None \/ Cutoff(now[r]) > agedCutoff[1]
                     THEN Some(Cutoff(now[r])) ELSE agedCutoff
    /\ result' = [result EXCEPT ![r] = Some(HealthData(result[r][1]))]
    /\ pc' = [pc EXCEPT ![r] = "snap_done"]
    /\ UNCHANGED <<metricsVars, clock, ticks, calls, now, hookVars,
                   recordsDone, arrivals, seenTs, lastRecordAt>>

\* the response is sent
SnapReturn(r) ==
    /\ pc[r] = "snap_done"
    /\ UNCHANGED lifeVars
    /\ result' = [result EXCEPT ![r] = NoResult]
    /\ now' = [now EXCEPT ![r] = DateTime(TRUE, 0)]
    /\ pc' = [pc EXCEPT ![r] = "idle"]
    /\ UNCHANGED <<metricsVars, lock, clock, ticks, calls, hookVars, ghostVars>>

\* ---------------------------------------------------------------- the clock
TickSteps == {1, Window - 1}

Tick ==
    /\ ticks < MaxTicks
    /\ UNCHANGED lifeVars
    /\ \E d \in TickSteps : clock' = clock + d
    /\ ticks' = ticks + 1
    /\ UNCHANGED <<metricsVars, lock, calls, pc, now, hookVars, result, ghostVars>>

Next ==
    \/ \E w \in Writers : HookCall(w)
    \/ \E w \in Writers : RecAcquire(w)
    \/ \E w \in Writers : RecStore(w)
    \/ \E w \in Writers : RecCompare(w)
    \/ \E w \in Writers : Push(w)
    \/ \E w \in Writers : HookReturn(w)
    \/ \E r \in Readers : SnapCall(r)
    \/ \E r \in Readers : SnapTake(r)
    \/ \E r \in Readers : SnapRelease(r)
    \/ \E r \in Readers : SnapReturn(r)
    \/ Tick
    \/ Lifespan
    \/ EngineMain
    \/ EngineExit
    \/ \E r \in Readers : HealthCheck(r)
    \/ \E r \in Readers : HealthReturn(r)

Spec == Init /\ [][Next]_vars

\* the engine as main.py runs it: one background unit calls the hook, one
\* call after the other
SeqWriter == "w1"

SeqNext ==
    \/ HookCallWithin(SeqWriter, MaxSeqCalls)
    \/ RecAcquire(SeqWriter)
    \/ RecStore(SeqWriter)
    \/ RecCompare(SeqWriter)
    \/ Push(SeqWriter)
    \/ HookReturn(SeqWriter)
    \/ \E r \in Readers : SnapCall(r)
    \/ \E r \in Readers : SnapTake(r)
    \/ \E r \in Readers : SnapRelease(r)
    \/ \E r \in Readers : SnapReturn(r)
    \/ Tick
    \/ Lifespan
    \/ EngineMain

SeqSpec == Init /\ [][SeqNext]_vars

\* the hook callers and the /health/data handler at a standing clock, under
\* fair scheduling: a thread that can take a step inside the lock takes it,
\* and a thread that waits for the lock gets it if the lock is free again
\* and again
LiveNext ==
    \/ \E w \in Writers : HookCall(w)
    \/ \E w \in Writers : RecAcquire(w)
    \/ \E w \in Writers : RecStore(w)
    \/ \E w \in Writers : RecCompare(w)
    \/ \E w \in Writers : Push(w)
    \/ \E w \in Writers : HookReturn(w)
    \/ \E r \in Readers : SnapCall(r)
    \/ \E r \in Readers : SnapTake(r)
    \/ \E r \in Readers : SnapRelease(r)
    \/ \E r \in Readers : SnapReturn(r)
    \/ Lifespan
    \/ EngineMain

Fairness ==
    /\ \A w \in Writers :
          /\ SF_vars(RecAcquire(w))
          /\ WF_vars(RecStore(w))
          /\ WF_vars(RecCompare(w))
    /\ \A r \in Readers :
          /\ SF_vars(SnapTake(r))
          /\ WF_vars(SnapRelease(r))

LiveSpec == Init /\ [][LiveNext]_vars /\ Fairness

\* ================================================================== claims
InRecord(w) == pc[w] \in {"rec_acquire", "rec_store", "rec_compare"}
NotADate == Str(<<ChJunk>>)

\* C1: concurrent record_entry calls, interleaved with get_metrics calls,
\* lose no increment: whenever no record_entry call is in progress,
\* total_entries equals the number of record_entry calls that have completed.
C1_NoLostIncrement ==
    (\A w \in Writers : ~InRecord(w)) => total_entries = recordsDone

C1_Witness ==
    /\ \A w \in Writers : pc[w] = "returned" /\ exc[w] = "none"
    /\ recordsDone = 2
    /\ \E r \in Readers : pc[r] = "snap_release"

\* C2: a snapshot taken after N record_entry calls reports totalEntries = N,
\* whatever mix of timed and untimed calls they were; total_entries changes
\* only by the store of a record_entry call, and then by exactly one.
C2_TotalIsCallCount ==
    /\ [](\A r \in Readers :
            pc[r] = "snap_release" => result[r][1].totalEntries = recordsDone)
    /\ [][ /\ total_entries' # total_entries =>
                /\ total_entries' = total_entries + 1
                /\ \E w \in Writers : pc[w] = "rec_store" /\ pc'[w] = "rec_compare"
           /\ \A w \in Writers :
                (pc[w] = "rec_store" /\ pc'[w] = "rec_compare")
                    => total_entries' = total_entries + 1 ]_vars

C2_Witness ==
    \E r \in Readers :
        /\ pc[r] = "snap_release"
        /\ result[r][1].totalEntries = 2
        /\ Len(arrivals) = 1

\* C3: every call of the wrapped upload_entry counts: whenever no call is
\* between its entry and its delegation, total_entries equals the number of
\* calls made, whatever their created_at was.
C3_EveryCallCounted ==
    (\A w \in Writers : pc[w] \in {"idle", "push", "returned"})
        => total_entries = calls

\* C4: whenever no record_entry call is inside the lock, last_entry_time is
\* None if no parsed timestamp has been passed, and else is one of the passed
\* timestamps and no passed timestamp is later.
C4_LastEntryIsMax ==
    lock = None =>
        IF seenTs = {} THEN last_entry_time = None
        ELSE /\ last_entry_time # None
             /\ last_entry_time[1] \in seenTs
             /\ \A d \in seenTs : d.t <= last_entry_time[1].t

\* C5: the entriesLast24Hours of a snapshot is the number of record_entry
\* calls made with a parsed timestamp whose arrival instant is less than
\* 24h before the instant of the snapshot.
C5_WindowCountsTimedArrivals ==
    \A r \in Readers :
        pc[r] = "snap_release" =>
            result[r][1].entriesLast24Hours =
                Cardinality({i \in DOMAIN arrivals :
                                Timestamp(now[r]) - arrivals[i] < Window})

\* C6: an entry that an earlier snapshot has excluded as aged (its arrival is
\* at or before that snapshot's cutoff) is counted by no later snapshot: a
\* snapshot counts at most the arrivals later than every earlier cutoff.
C6_AgedEntryNeverReappears ==
    \A r \in Readers :
        (pc[r] = "snap_release" /\ agedCutoff # None) =>
            result[r][1].entriesLast24Hours <=
                Cardinality({i \in DOMAIN arrivals : arrivals[i] > agedCutoff[1]})

C6_Witness ==
    \E r \in Readers :
        /\ pc[r] = "snap_release"
        /\ agedCutoff # None
        /\ \E i \in DOMAIN arrivals : arrivals[i] <= agedCutoff[1]
        /\ result[r][1].entriesLast24Hours = 1

\* C7: the hook never alters the wrapped push: when a call returns, the real
\* upload_entry has been invoked exactly once, with the record and the entity
\* of the call, and the hook returns what it returned, also when extraction
\* or record_entry raised; before that it has not been invoked.
C7_PushUnaltered ==
    \A w \in Writers :
        IF pc[w] = "returned"
        THEN /\ pushed[w].count = 1
             /\ pushed[w].args = Some(UploadCall(ns_format[w], entity[w]))
             /\ pushed[w].ret # None
             /\ hookRet[w] = pushed[w].ret
        ELSE pushed[w].count = 0

C7_Witness ==
    \E w \in Writers :
        /\ pc[w] = "returned"
        /\ exc[w] = "TypeError"
        /\ entity[w] = "entries"
        /\ hookRet[w] = Some("rejected")

\* C8: the lock is never held by a unit that is delegating to the real
\* upload_entry.
C8_NoLockDuringPush ==
    \A w \in Writers : pc[w] = "push" => lock # Some(w)

C8_Witness ==
    /\ \E w \in Writers : pc[w] = "push" /\ exc[w] = "TypeError"
    /\ \E r \in Readers : pc[r] = "snap_release"

\* C9: record_entry never raises, whatever timestamp it is given in whatever
\* state.
C9_RecordNeverRaises ==
    \A w \in Writers : exc[w] # "TypeError"

\* C10: a call observed with the unparsable created_at "not-a-date" is
\* counted once, without an exception, and no step of it changes
\* last_entry_time or the window buffer.
C10_UnparsableCountsUntimed ==
    /\ [](\A w \in Writers :
            (ns_format[w] = NotADate /\ pc[w] \in {"push", "returned"})
                => counted[w] /\ exc[w] = "none")
    /\ [][\A w \in Writers :
            (ns_format'[w] = NotADate /\ pc'[w] # pc[w]) =>
                /\ last_entry_time' = last_entry_time
                /\ entries_buffer' = entries_buffer
                /\ total_entries' =
                      total_entries + (IF pc[w] = "rec_store" THEN 1 ELSE 0)]_vars

C10_Witness ==
    \E w \in Writers :
        /\ pc[w] = "returned"
        /\ ns_format[w] = NotADate
        /\ total_entries = 2
        /\ last_entry_time # None
        /\ Len(entries_buffer) = 1

\* C11: record_entry and get_metrics run under one exclusive lock: at most
\* one thread is inside a critical section, and it is the lock's holder; a
\* snapshot is the state as it is with no record_entry call part-way through.
InCritical(t) == pc[t] \in {"rec_store", "rec_compare", "snap_release"}

C11_ExclusiveAndUntorn ==
    /\ Cardinality({t \in Threads : InCritical(t)}) <= 1
    /\ \A t \in Threads : InCritical(t) => lock = Some(t)
    /\ \A r \in Readers :
          pc[r] = "snap_release" =>
              /\ \A w \in Writers : pc[w] \notin {"rec_store", "rec_compare"}
              /\ result[r][1].totalEntries = total_entries
              /\ result[r][1].entriesLast24Hours = Len(entries_buffer)
              /\ (result[r][1].lastSyncTime = None) = (last_sync_time = None)
              /\ (result[r][1].lastEntryTime = None) = (last_entry_time = None)

C11_Witness ==
    /\ \E r \in Readers : pc[r] = "snap_release" /\ result[r][1].totalEntries = 1
    /\ \E w \in Writers : pc[w] = "rec_acquire"

\* C12: /health answers {"status": "healthy"} whatever the state of the
\* background unit, and it can answer in every state in which the server
\* serves and the handler is free.
C12_HealthAlwaysHealthy ==
    \A r \in Readers :
        /\ pc[r] = "health_done" =>
              health[r][1].response = [status |-> "healthy"]
        /\ (Serving /\ pc[r] = "idle") => ENABLED HealthCheck(r)

C12_Witness ==
    \E r \in Readers :
        /\ pc[r] = "health_done"
        /\ health[r][1].during = "crashed"
        /\ total_entries = 1

\* C13: whenever no record_entry call is inside the lock, last_sync_time is
\* the instant of the most recent record_entry call, timed or not, and a
\* snapshot reports that instant in ISO format; after two untimed calls and
\* one timed call a snapshot reports 3, the timestamp, 1 and the instant of
\* the third call.
C13_LastSyncIsLatestCall ==
    /\ (\A w \in Writers : pc[w] \notin {"rec_store", "rec_compare"}) =>
          last_sync_time = (IF lastRecordAt = None THEN None
                            ELSE Some(DateTime(TRUE, lastRecordAt[1])))
    /\ \A r \in Readers :
          pc[r] = "snap_release" =>
              result[r][1].lastSyncTime =
                  (IF lastRecordAt = None THEN None
                   ELSE Some(<<Body(lastRecordAt[1]), ChOffset>>))

C13_Witness ==
    \E r \in Readers :
        /\ pc[r] = "snap_release"
        /\ recordsDone = 3
        /\ Len(arrivals) = 1
        /\ seenTs = {DateTime(TRUE, 2)}
        /\ lastRecordAt = Some(Window)
        /\ arrivals[1] = Window
        /\ result[r][1] = [totalEntries |-> 3,
                           lastEntryTime |-> Some(<<Body(2), ChOffset>>),
                           entriesLast24Hours |-> 1,
                           lastSyncTime |-> Some(<<Body(Window), ChOffset>>)]

\* C14: as long as no record_entry call has counted, every snapshot, the
\* first and every later one, reports totalEntries 0, lastEntryTime null,
\* entriesLast24Hours 0 and lastSyncTime null, and /health/data carries
\* exactly these metrics.
ZeroMetrics ==
    [totalEntries |-> 0, lastEntryTime |-> None,
     entriesLast24Hours |-> 0, lastSyncTime |-> None]

C14_StartupMetricsZero ==
    \A r \in Readers :
        total_entries = 0 =>
            /\ pc[r] = "snap_release" => result[r][1] = ZeroMetrics
            /\ pc[r] = "snap_done" => result[r][1].metrics = ZeroMetrics

C14_Witness ==
    \E r \in Readers :
        /\ pc[r] = "snap_release"
        /\ agedCutoff # None
        /\ clock = Window
        /\ total_entries = 0
        /\ \E w \in Writers : pc[w] = "rec_acquire"

\* C15: tconnectsync.main is entered at most once, and only from the start of
\* the process; once it has crashed the background unit stays crashed: the
\* engine is not entered again, no hook call is made and no record_entry call
\* counts.
C15_LaunchedOnceNoRestart ==
    /\ [](starts <= 1)
    /\ [][ /\ starts' # starts => (sync = "starting" /\ starts = 0)
           /\ sync = "crashed" =>
                /\ sync' = "crashed"
                /\ starts' = starts
                /\ calls' = calls
                /\ recordsDone' = recordsDone
                /\ total_entries' = total_entries
                /\ \A w \in Writers : pc'[w] = "idle" ]_vars

C15_Witness ==
    /\ sync = "crashed"
    /\ starts = 1
    /\ total_entries = 2
    /\ \E r \in Readers : pc[r] = "snap_done"

\* C16: whatever the environment holds, run_tconnectsync goes on to enter the
\* engine; the arguments begin with --auto-update and --check-login, and
\* --region with its value follows exactly when TCONNECT_REGION is set to a
\* non-empty text; missing credentials only set the warning.
C16_EngineStartsRegardless ==
    sync = "starting" =>
        LET l == launch[1] IN
        /\ ENABLED EngineMain
        /\ SubSeq(l.args, 1, 2) = <<"--auto-update", "--check-login">>
        /\ IF l.env.TCONNECT_REGION \in {None, Some("")}
           THEN Len(l.args) = 2
           ELSE l.args = <<"--auto-update", "--check-login", "--region",
                           l.env.TCONNECT_REGION[1]>>
        /\ l.warned = (\/ l.env.TCONNECT_EMAIL \in {None, Some("")}
                       \/ l.env.TCONNECT_PASSWORD \in {None, Some("")})

C16_Witness ==
    /\ sync = "starting"
    /\ launch[1].env.TCONNECT_EMAIL = None
    /\ launch[1].env.TCONNECT_REGION = Some("EU")
    /\ launch[1].warned
    /\ Len(launch[1].args) = 4

CrossField(m) ==
    /\ 0 <= m.entriesLast24Hours
    /\ m.entriesLast24Hours <= m.totalEntries
    /\ (m.lastSyncTime = None) = (m.totalEntries = 0)
    /\ m.lastEntryTime # None => m.totalEntries >= 1

C18_SnapshotCrossField ==
    \A r \in Readers :
        /\ pc[r] = "snap_release" => CrossField(result[r][1])
        /\ pc[r] = "snap_done" => CrossField(result[r][1].metrics)

C18_Witness ==
    /\ \E w \in Writers : exc[w] = "TypeError"
    /\ \E r \in Readers :
          /\ pc[r] = "snap_done"
          /\ result[r][1].metrics.totalEntries = 2
          /\ result[r][1].metrics.entriesLast24Hours = 1
          /\ result[r][1].metrics.lastEntryTime # None

\* C19: get_metrics is read-only on the counters: a step of the /health/data
\* handler leaves total_entries, last_entry_time and last_sync_time as they
\* are and at most removes entries from the buffer; no step other than one
\* inside record_entry changes the counters or lengthens the buffer; and a
\* snapshot reports the counters as they are. So two snapshots with no
\* record_entry call between them report the same totalEntries,
\* lastEntryTime and lastSyncTime, and entriesLast24Hours does not increase.
RECURSIVE IsSubseq(_, _)
IsSubseq(a, b) ==
    IF a = <<>> THEN TRUE
    ELSE IF b = <<>> THEN FALSE
    ELSE IF Head(a) = Head(b) THEN IsSubseq(Tail(a), Tail(b))
    ELSE IsSubseq(a, Tail(b))

IsoOrNull(d) ==
    IF d = None THEN None
    ELSE Some(<<Body(d[1].t)>> \o (IF d[1].aware THEN <<ChOffset>> ELSE <<>>))

C19_SnapshotReadOnly ==
    [][ /\ \A r \in Readers :
             pc'[r] # pc[r] =>
                 /\ total_entries' = total_entries
                 /\ last_entry_time' = last_entry_time
                 /\ last_sync_time' = last_sync_time
                 /\ IsSubseq(entries_buffer', entries_buffer)
                 /\ UNCHANGED <<hookVars, calls, sync>>
        /\ (\A w \in Writers : pc[w] \in {"rec_store", "rec_compare"} => pc'[w] = pc[w]) =>
                 /\ total_entries' = total_entries
                 /\ last_entry_time' = last_entry_time
                 /\ last_sync_time' = last_sync_time
                 /\ Len(entries_buffer') <= Len(entries_buffer)
        /\ \A r \in Readers :
             (pc[r] = "snap_acquire" /\ pc'[r] = "snap_release") =>
                 /\ result'[r][1].totalEntries = total_entries
                 /\ result'[r][1].lastEntryTime = IsoOrNull(last_entry_time)
                 /\ result'[r][1].lastSyncTime = IsoOrNull(last_sync_time)
                 /\ result'[r][1].entriesLast24Hours = Len(entries_buffer')
      ]_vars

C19_Witness ==
    \E r \in Readers :
        /\ pc[r] = "snap_release"
        /\ agedCutoff # None
        /\ arrivals = <<0>>
        /\ entries_buffer = <<>>
        /\ result[r][1].totalEntries = 1
        /\ result[r][1].lastEntryTime # None

====
